---- MODULE Spec2Model ----
(***************************************************************************)
(* Flat insulation sheet calculations of src/src/utils/sheets.ts:          *)
(* interpolateSheetLambda, getFlatU, computeSheetHeatLoss,                 *)
(* getRecommendedSheetThickness, calculateMinimumSheetThickness and        *)
(* getNominalSheetThicknessRecommendation.                                 *)
(*                                                                         *)
(* A JavaScript number is modelled as an exact rational n/d.  TLC's        *)
(* integers are 32 bits wide and the bisection of                          *)
(* calculateMinimumSheetThickness needs products far beyond that, so the   *)
(* numerator and the denominator are arbitrary-precision integers: a       *)
(* magnitude is a sequence of base-10000 digits, least significant first,  *)
(* without leading zeros (zero is the empty sequence).  A denominator of   *)
(* zero is the result of a division by zero: 0/0 is NaN, n/0 an infinity.  *)
(* Floating-point rounding is not modelled.                                *)
(***************************************************************************)
EXTENDS Integers, Sequences, FiniteSets, TLC

(***************************************************************************)
(* Arbitrary-precision naturals.                                           *)
(***************************************************************************)
Base == 100 * 100

RECURSIVE BNat(_)
BNat(n) == IF n = 0 THEN << >> ELSE <<n % Base>> \o BNat(n \div Base)

BHead(x) == IF x = << >> THEN 0 ELSE Head(x)
BTail(x) == IF x = << >> THEN << >> ELSE Tail(x)

RECURSIVE BAddC(_, _, _)
BAddC(x, y, c) ==
    IF x = << >> /\ y = << >>
    THEN (IF c = 0 THEN << >> ELSE <<c>>)
    ELSE LET s == BHead(x) + BHead(y) + c
         IN  <<s % Base>> \o BAddC(BTail(x), BTail(y), s \div Base)

BAdd(x, y) == BAddC(x, y, 0)

RECURSIVE BTrim(_)
BTrim(x) ==
    IF x = << >> THEN << >>
    ELSE IF x[Len(x)] = 0 THEN BTrim(SubSeq(x, 1, Len(x) - 1))
    ELSE x

\* x - y for x >= y, digit by digit with a borrow b.
RECURSIVE BSubB(_, _, _)
BSubB(x, y, b) ==
    IF x = << >> THEN << >>
    ELSE LET d == Head(x) - BHead(y) - b
         IN  IF d < 0
             THEN <<d + Base>> \o BSubB(Tail(x), BTail(y), 1)
             ELSE <<d>> \o BSubB(Tail(x), BTail(y), 0)

BSub(x, y) == BTrim(BSubB(x, y, 0))

\* x times one digit d, with carry c.
RECURSIVE BMulD(_, _, _)
BMulD(x, d, c) ==
    IF x = << >>
    THEN (IF c = 0 THEN << >> ELSE <<c>>)
    ELSE LET p == Head(x) * d + c
         IN  <<p % Base>> \o BMulD(Tail(x), d, p \div Base)

RECURSIVE BMul(_, _)
BMul(x, y) ==
    IF x = << >> \/ y = << >> THEN << >>
    ELSE LET low  == IF Head(y) = 0 THEN << >> ELSE BMulD(x, Head(y), 0)
             rest == BMul(x, Tail(y))
         IN  BAdd(low, IF rest = << >> THEN << >> ELSE <<0>> \o rest)

\* -1, 0, 1 as x <, =, > y: by length, then from the most significant digit.
RECURSIVE BCmpFrom(_, _, _)
BCmpFrom(x, y, i) ==
    IF i = 0 THEN 0
    ELSE IF x[i] < y[i] THEN -1
    ELSE IF x[i] > y[i] THEN 1
    ELSE BCmpFrom(x, y, i - 1)

BCmp(x, y) ==
    IF Len(x) < Len(y) THEN -1
    ELSE IF Len(x) > Len(y) THEN 1
    ELSE BCmpFrom(x, y, Len(x))

\* x divided by a small k: the digits of the quotient from digit i down, the
\* remainder so far being r; and the remainder of that division.
RECURSIVE BDivSmallFrom(_, _, _, _)
BDivSmallFrom(x, k, i, r) ==
    IF i = 0 THEN << >>
    ELSE LET cur == r * Base + x[i]
         IN  BDivSmallFrom(x, k, i - 1, cur % k) \o <<cur \div k>>

BDivSmall(x, k) == BTrim(BDivSmallFrom(x, k, Len(x), 0))

RECURSIVE BModSmallFrom(_, _, _, _)
BModSmallFrom(x, k, i, r) ==
    IF i = 0 THEN r ELSE BModSmallFrom(x, k, i - 1, (r * Base + x[i]) % k)

BModSmall(x, k) == BModSmallFrom(x, k, Len(x), 0)

(***************************************************************************)
(* Signed integers: [neg, m], zero never negative.                         *)
(***************************************************************************)
ZMk(neg, m) == [neg |-> neg /\ m # << >>, m |-> m]
ZInt(i) == IF i < 0 THEN ZMk(TRUE, BNat(-i)) ELSE ZMk(FALSE, BNat(i))
ZNeg(a) == ZMk(~a.neg, a.m)
ZIsZero(a) == a.m = << >>

ZAdd(a, b) ==
    IF a.neg = b.neg THEN ZMk(a.neg, BAdd(a.m, b.m))
    ELSE IF BCmp(a.m, b.m) >= 0 THEN ZMk(a.neg, BSub(a.m, b.m))
    ELSE ZMk(b.neg, BSub(b.m, a.m))

ZMul(a, b) == ZMk(a.neg # b.neg, BMul(a.m, b.m))

ZCmp(a, b) ==
    IF a.neg /\ ~b.neg THEN -1
    ELSE IF ~a.neg /\ b.neg THEN 1
    ELSE IF a.neg THEN BCmp(b.m, a.m)
    ELSE BCmp(a.m, b.m)

(***************************************************************************)
(* Numbers: [n, d] is n/d, n signed, d a magnitude.                        *)
(***************************************************************************)
Q(n, d) == [n |-> ZInt(n), d |-> BNat(d)]
QInt(i) == Q(i, 1)

\* JavaScript passes numbers by value: an operation's operands are computed
\* before it runs.  (TLC would otherwise pass them unevaluated and nest the
\* whole arithmetic of a call in one evaluation.)  Binding an operand through
\* the one-element set {a} computes it first.

\* Common factors are cancelled after every operation (10000, 10, 16, 2, 5
\* and 3, each as often as it divides both): the value is unchanged, the
\* digits stay few.
RECURSIVE QReduceBy(_, _)
QReduceBy(a, k) ==
    IF /\ a.n.m # << >>
       /\ a.d # << >>
       /\ BModSmall(a.n.m, k) = 0
       /\ BModSmall(a.d, k) = 0
    THEN QReduceBy([n |-> ZMk(a.n.neg, BDivSmall(a.n.m, k)), d |-> BDivSmall(a.d, k)], k)
    ELSE a

QReduce(a) ==
    CHOOSE r \in {QReduceBy(r5, 3) :
                  r5 \in {QReduceBy(r4, 5) :
                  r4 \in {QReduceBy(r3, 2) :
                  r3 \in {QReduceBy(r2, 16) :
                  r2 \in {QReduceBy(r1, 10) :
                  r1 \in {QReduceBy(x, Base) : x \in {a}}}}}}} : TRUE

QAdd(a, b) ==
    CHOOSE r \in {QReduce([n |-> ZAdd(ZMul(x.n, ZMk(FALSE, y.d)),
                                      ZMul(y.n, ZMk(FALSE, x.d))),
                           d |-> BMul(x.d, y.d)]) : x \in {a}, y \in {b}} : TRUE
QNeg(a) == CHOOSE r \in {[n |-> ZNeg(x.n), d |-> x.d] : x \in {a}} : TRUE
QSub(a, b) == QAdd(a, QNeg(b))
QMul(a, b) ==
    CHOOSE r \in {QReduce([n |-> ZMul(x.n, y.n), d |-> BMul(x.d, y.d)]) :
                  x \in {a}, y \in {b}} : TRUE
\* a / b; b = 0 leaves the denominator zero.
QDiv(a, b) ==
    CHOOSE r \in {QReduce([n |-> ZMul(x.n, ZMk(y.n.neg, y.d)),
                           d |-> BMul(x.d, y.n.m)]) : x \in {a}, y \in {b}} : TRUE
QAbs(a) == CHOOSE r \in {[n |-> ZMk(FALSE, x.n.m), d |-> x.d] : x \in {a}} : TRUE

QCmp(a, b) ==
    CHOOSE r \in {ZCmp(ZMul(x.n, ZMk(FALSE, y.d)), ZMul(y.n, ZMk(FALSE, x.d))) :
                  x \in {a}, y \in {b}} : TRUE
QLt(a, b) == QCmp(a, b) < 0
QLe(a, b) == QCmp(a, b) <= 0
QGt(a, b) == QCmp(a, b) > 0
QGe(a, b) == QCmp(a, b) >= 0
QEq(a, b) == QCmp(a, b) = 0
QMax(a, b) == IF QGe(a, b) THEN a ELSE b

IsFinite(a) == a.d # << >>
IsNaN(a) == a.d = << >> /\ ZIsZero(a.n)


(***************************************************************************)
(* Input domains.  Temperatures are given in tenths of a degree Celsius,   *)
(* thicknesses handed to getNominalSheetThicknessRecommendation in         *)
(* hundredths of a millimetre; Deg, Mm100 make the numbers.                *)
(***************************************************************************)
Deg(tenths) == Q(tenths, 10)
Mm100(hundredths) == Q(hundredths, 100)

\* Temperatures of a standalone interpolateSheetLambda call: every half
\* degree of -TempSpan .. TempSpan (in half degrees).
TempSpan == 100
LambdaTemps == {5 * k : k \in (0 - TempSpan)..TempSpan}

\* Convective coefficients h: -1 .. MaxH, so 0 and a negative value are tried.
MaxH == 3
Hs == (0 - 1)..MaxH

\* Thicknesses given to the rounder: 0 .. MaxNominalInput hundredths of a mm.
MaxNominalInput == 5600

(***************************************************************************)
(* SHEET_MATERIALS (./constants, not part of the sources at hand): per     *)
(* material, lambda maps a temperature anchor (degrees Celsius) to a       *)
(* conductivity, here in 1/10000 W/(m K).  Anchors are whole degrees and   *)
(* every conductivity is positive.  "ST" gives 0.0370 at 30 degrees, as    *)
(* the comment of computeSheetHeatLoss expects; "HT" is not monotone;      *)
(* "ONE" has a single anchor.                                              *)
(***************************************************************************)
SHEET_MATERIALS ==
    [ST  |-> [lambda |-> ((0 - 20) :> 320 @@ 0 :> 340 @@ 20 :> 360 @@ 40 :> 380)],
     HT  |-> [lambda |-> (0 :> 400 @@ 10 :> 370 @@ 40 :> 450)],
     ONE |-> [lambda |-> (20 :> 360)]]

Materials == {"ST", "HT", "ONE", "unknown"}
\* The materials of the calls that only need some conductivity.
SomeMaterials == {"ST", "HT", "unknown"}

(***************************************************************************)
(* interpolateSheetLambda                                                  *)
(***************************************************************************)
Min(S) == CHOOSE x \in S : \A y \in S : x <= y
Max(S) == CHOOSE x \in S : \A y \in S : x >= y

\* Object.keys(lambdaData).map(Number).sort((a, b) => a - b)
RECURSIVE SortAscending(_)
SortAscending(S) ==
    IF S = {} THEN << >> ELSE <<Min(S)>> \o SortAscending(S \ {Min(S)})

\* A stored conductivity as a number.
LambdaValue(lambdaData, anchor) == Q(lambdaData[anchor], 10000)

\* String(temp) in lambdaData: the keys are the decimal strings of the whole
\* anchors, so temp matches when it is numerically one of them.
ExactAnchors(temp, lambdaData) ==
    {a \in DOMAIN lambdaData : QEq(temp, QInt(a))}

DefaultLambda == Q(36, 1000)

\* The loop with the interpolation started from the upper anchor's lambda.
InterpolateLoopFromUpper(temp, lambdaData, temps, lambda) ==
    LET hits == {i \in 1..(Len(temps) - 1) :
                    QGe(temp, QInt(temps[i])) /\ QLe(temp, QInt(temps[i + 1]))}
    IN  IF hits = {} THEN lambda
        ELSE LET i  == Min(hits)
                 t0 == QInt(temps[i])
                 t1 == QInt(temps[i + 1])
                 l0 == LambdaValue(lambdaData, temps[i])
                 l1 == LambdaValue(lambdaData, temps[i + 1])
             IN  QAdd(l1, QDiv(QMul(QSub(l1, l0), QSub(temp, t0)), QSub(t1, t0)))

\* The loop of lines 11-19: the first i (1-based here) with
\* temps[i] <= temp <= temps[i+1] interpolates, otherwise lambda stays.
InterpolateLoop(temp, lambdaData, temps, lambda) ==
    LET hits == {i \in 1..(Len(temps) - 1) :
                    QGe(temp, QInt(temps[i])) /\ QLe(temp, QInt(temps[i + 1]))}
    IN  IF hits = {} THEN lambda
        ELSE LET i  == Min(hits)
                 t0 == QInt(temps[i])
                 t1 == QInt(temps[i + 1])
                 l0 == LambdaValue(lambdaData, temps[i])
                 l1 == LambdaValue(lambdaData, temps[i + 1])
             IN  QAdd(l0, QDiv(QMul(QSub(l1, l0), QSub(temp, t0)), QSub(t1, t0)))

\* interpolateSheetLambda with lambda initialised from the highest anchor.
interpolateSheetLambdaFromHighest(temp, material) ==
    IF material \notin DOMAIN SHEET_MATERIALS THEN DefaultLambda
    ELSE LET lambdaData == SHEET_MATERIALS[material].lambda
             temps      == SortAscending(DOMAIN lambdaData)
             exact      == ExactAnchors(temp, lambdaData)
         IN  IF exact # {} THEN LambdaValue(lambdaData, CHOOSE a \in exact : TRUE)
             ELSE InterpolateLoop(temp, lambdaData, temps,
                                  IF temps = << >> THEN DefaultLambda
                                  ELSE LambdaValue(lambdaData, temps[Len(temps)]))

interpolateSheetLambda(temp, material) ==
    IF material \notin DOMAIN SHEET_MATERIALS THEN DefaultLambda
    ELSE LET lambdaData == SHEET_MATERIALS[material].lambda
             temps      == SortAscending(DOMAIN lambdaData)
             exact      == ExactAnchors(temp, lambdaData)
         IN  IF exact # {} THEN LambdaValue(lambdaData, CHOOSE a \in exact : TRUE)
             ELSE InterpolateLoop(temp, lambdaData, temps,
                                  IF temps = << >> THEN DefaultLambda
                                  ELSE LambdaValue(lambdaData, temps[1]))

(***************************************************************************)
(* What a call yields: a value, or an error.  The error tag names the      *)
(* check that threw; derived lists the derived quantities computed before  *)
(* the call ended.                                                         *)
(***************************************************************************)
NoValue == << >>
Return(v, derived) == [threw |-> FALSE, error |-> "none", value |-> v, derived |-> derived]
Throw(e, derived) == [threw |-> TRUE, error |-> e, value |-> NoValue, derived |-> derived]

\* The spec's names for the thrown errors.
ErrorKind(e) ==
    IF e \in {"h", "thicknessMm", "lambda", "areaM2"} THEN "InvalidInput"
    ELSE IF e \in {"dewPoint", "targetSurfaceTemp"} THEN "PhysicallyImpossible"
    ELSE "none"

(***************************************************************************)
(* getFlatU                                                                *)
(***************************************************************************)
getFlatU(h, thicknessMm, lambda) ==
    IF QLe(h, QInt(0)) THEN Throw("h", {})
    ELSE IF QLe(thicknessMm, QInt(0)) THEN Throw("thicknessMm", {})
    ELSE IF QLe(lambda, QInt(0)) THEN Throw("lambda", {})
    ELSE LET R_conv  == QDiv(QInt(1), h)
             R_ins   == QDiv(QDiv(thicknessMm, QInt(1000)), lambda)
             R_total == QAdd(R_conv, R_ins)
         IN  Return(QDiv(QInt(1), R_total), {"R_conv", "R_ins", "R_total", "U"})

(***************************************************************************)
(* computeSheetHeatLoss                                                    *)
(***************************************************************************)
\* Math.pow(deltaT, 0.33) is irrational; the model takes the least whole u
\* with u^3 >= deltaT, an upper bound of it for every deltaT >= 0
\* (deltaT^0.33 <= deltaT^(1/3) <= u from 1 on, and <= 1 <= u below 1, 0 at 0).
\* The power is used only under Math.max(1.32 * pow, 1 / 0.13): for
\* deltaT <= 125 the bound gives 1.32 * 5 < 1 / 0.13, so the maximum, and with
\* it h0, is exactly the code's.
RECURSIVE PowUpperFrom(_, _)
PowUpperFrom(deltaT, u) ==
    IF QGe(QInt(u * u * u), deltaT) THEN u ELSE PowUpperFrom(deltaT, u + 1)

PowUpper(deltaT) == PowUpperFrom(deltaT, 0)

BareSurfaceH0(mediumTemp, ambientTemp) ==
    LET deltaT_for_h   == QAbs(QSub(mediumTemp, ambientTemp))
        alpha_conv_raw == QMul(Q(132, 100), QInt(PowUpper(deltaT_for_h)))
        alpha_conv     == QMax(alpha_conv_raw, QDiv(QInt(1), Q(13, 100)))
        epsilon        == Q(93, 100)
        alpha_rad_q0   == QMul(epsilon, Q(1428, 1000))
    IN  QAdd(alpha_conv, alpha_rad_q0)

\* Q0 of line 128, the divisor of line 131.
BareSurfaceQ0(ambientTemp, mediumTemp, areaM2) ==
    LET deltaT == QAbs(QSub(mediumTemp, ambientTemp))
        U0     == BareSurfaceH0(mediumTemp, ambientTemp)
    IN  QMul(QMul(U0, areaM2), deltaT)

\* computeSheetHeatLoss without its own check of h: getFlatU's check is then
\* the first to see a bad h, after lambda is computed.
computeSheetHeatLossLateH(ambientTemp, mediumTemp, thicknessMm, areaM2, material, h, costPerKWh) ==
    IF QLe(areaM2, QInt(0)) THEN Throw("areaM2", {})
    ELSE IF QLe(thicknessMm, QInt(0)) THEN Throw("thicknessMm", {})
    ELSE LET lambdaTemp == QAdd(ambientTemp, QInt(5))
             lambda     == interpolateSheetLambda(lambdaTemp, material)
             flatU      == getFlatU(h, thicknessMm, lambda)
         IN  IF flatU.threw THEN Throw(flatU.error, {"lambdaTemp", "lambda"})
             ELSE LET U      == flatU.value
                      deltaT == QAbs(QSub(mediumTemp, ambientTemp))
                      Qw     == QMul(QMul(U, areaM2), deltaT)
                      Q0     == BareSurfaceQ0(ambientTemp, mediumTemp, areaM2)
                      decrease    == QMul(QDiv(QSub(Q0, Qw), Q0), QInt(100))
                      costPerHour == QMul(QDiv(Qw, QInt(1000)), costPerKWh)
                  IN  Return([meanLambda |-> lambda, U |-> U, Q |-> Qw,
                              decrease |-> decrease, costPerHour |-> costPerHour],
                             {"lambdaTemp", "lambda", "U", "deltaT", "Q", "h0", "Q0",
                              "decrease", "costPerHour"})

computeSheetHeatLoss(ambientTemp, mediumTemp, thicknessMm, areaM2, material, h, costPerKWh) ==
    IF QLe(areaM2, QInt(0)) THEN Throw("areaM2", {})
    ELSE IF QLe(thicknessMm, QInt(0)) THEN Throw("thicknessMm", {})
    ELSE IF QLe(h, QInt(0)) THEN Throw("h", {})
    ELSE LET lambdaTemp == QAdd(ambientTemp, QInt(5))
             lambda     == interpolateSheetLambda(lambdaTemp, material)
             flatU      == getFlatU(h, thicknessMm, lambda)
         IN  IF flatU.threw THEN Throw(flatU.error, {"lambdaTemp", "lambda"})
             ELSE LET U      == flatU.value
                      deltaT == QAbs(QSub(mediumTemp, ambientTemp))
                      Qw     == QMul(QMul(U, areaM2), deltaT)
                      Q0     == BareSurfaceQ0(ambientTemp, mediumTemp, areaM2)
                      decrease    == QMul(QDiv(QSub(Q0, Qw), Q0), QInt(100))
                      costPerHour == QMul(QDiv(Qw, QInt(1000)), costPerKWh)
                  IN  Return([meanLambda |-> lambda, U |-> U, Q |-> Qw,
                              decrease |-> decrease, costPerHour |-> costPerHour],
                             {"lambdaTemp", "lambda", "U", "deltaT", "Q", "h0", "Q0",
                              "decrease", "costPerHour"})

(***************************************************************************)
(* getRecommendedSheetThickness                                            *)
(***************************************************************************)
candidates == <<6, 9, 10, 13, 19, 25, 32, 40, 50>>

DefaultTargetHeatFlux == 15

\* The heat flux q of candidate i (getFlatU did not throw).
CandidateFlux(i, lambda, deltaT, h) ==
    QMul(getFlatU(h, QInt(candidates[i]), lambda).value, deltaT)

\* The for loop with q < target in place of q <= target.
RECURSIVE RecommendFromStrict(_, _, _, _, _)
RecommendFromStrict(i, lambda, deltaT, h, targetHeatFluxWPerM2) ==
    IF i > Len(candidates)
    THEN Return(QInt(candidates[Len(candidates)]), {"lambda", "deltaT", "U", "q"})
    ELSE LET flatU == getFlatU(h, QInt(candidates[i]), lambda)
         IN  IF flatU.threw THEN Throw(flatU.error, {"lambda", "deltaT"})
             ELSE IF QLt(QMul(flatU.value, deltaT), targetHeatFluxWPerM2)
             THEN Return(QInt(candidates[i]), {"lambda", "deltaT", "U", "q"})
             ELSE RecommendFromStrict(i + 1, lambda, deltaT, h, targetHeatFluxWPerM2)

\* The for loop from candidate i on.
RECURSIVE RecommendFrom(_, _, _, _, _)
RecommendFrom(i, lambda, deltaT, h, targetHeatFluxWPerM2) ==
    IF i > Len(candidates)
    THEN Return(QInt(candidates[Len(candidates)]), {"lambda", "deltaT", "U", "q"})
    ELSE LET flatU == getFlatU(h, QInt(candidates[i]), lambda)
         IN  IF flatU.threw THEN Throw(flatU.error, {"lambda", "deltaT"})
             ELSE IF QLe(QMul(flatU.value, deltaT), targetHeatFluxWPerM2)
             THEN Return(QInt(candidates[i]), {"lambda", "deltaT", "U", "q"})
             ELSE RecommendFrom(i + 1, lambda, deltaT, h, targetHeatFluxWPerM2)

\* getRecommendedSheetThickness with deltaT taken without Math.abs.
getRecommendedSheetThicknessSigned(ambientTemp, mediumTemp, material, h, targetHeatFluxWPerM2) ==
    LET lambda == interpolateSheetLambda(ambientTemp, material)
        deltaT == QSub(mediumTemp, ambientTemp)
    IN  RecommendFrom(1, lambda, deltaT, h, targetHeatFluxWPerM2)

\* The parameter _areaM2 is not used by the code and is left out.
getRecommendedSheetThickness(ambientTemp, mediumTemp, material, h, targetHeatFluxWPerM2) ==
    LET lambda == interpolateSheetLambda(ambientTemp, material)
        deltaT == QAbs(QSub(mediumTemp, ambientTemp))
    IN  RecommendFrom(1, lambda, deltaT, h, targetHeatFluxWPerM2)

(***************************************************************************)
(* getNominalSheetThicknessRecommendation                                  *)
(***************************************************************************)
\* The rounder with >= 7 in place of > 7.
getNominalSheetThicknessRecommendationFrom7(minimumThickness) ==
    IF QGt(minimumThickness, Q(3799, 100)) THEN 50
    ELSE IF QGt(minimumThickness, Q(2999, 100)) THEN 40
    ELSE IF QGt(minimumThickness, Q(2299, 100)) THEN 32
    ELSE IF QGt(minimumThickness, Q(1699, 100)) THEN 25
    ELSE IF QGt(minimumThickness, Q(1099, 100)) THEN 19
    ELSE IF QGe(minimumThickness, QInt(7)) THEN 13
    ELSE IF QGt(minimumThickness, Q(499, 100)) THEN 9
    ELSE 6

getNominalSheetThicknessRecommendation(minimumThickness) ==
    IF QGt(minimumThickness, Q(3799, 100)) THEN 50
    ELSE IF QGt(minimumThickness, Q(2999, 100)) THEN 40
    ELSE IF QGt(minimumThickness, Q(2299, 100)) THEN 32
    ELSE IF QGt(minimumThickness, Q(1699, 100)) THEN 25
    ELSE IF QGt(minimumThickness, Q(1099, 100)) THEN 19
    ELSE IF QGt(minimumThickness, QInt(7)) THEN 13
    ELSE IF QGt(minimumThickness, Q(499, 100)) THEN 9
    ELSE 6

(***************************************************************************)
(* calculateMinimumSheetThickness.  Inside the bisection a thickness is a  *)
(* whole number of ticks, 2^14 to the step of 0.01 mm: minMm, maxMm and    *)
(* every midpoint of the 14 halvings is a whole number of ticks, so        *)
(* (lo + hi) / 2 is exact.                                                 *)
(***************************************************************************)
TicksPerStep == 2^14
TicksPerMm == 100 * TicksPerStep
TicksToMm(t) == Q(t, TicksPerMm)

minMm == TicksPerStep
maxMm == 100 * TicksPerMm
step == TicksPerStep

DefaultSafetyMarginC == Q(3, 10)
FallbackMm == 50

MeanLambda(ambientTemp, mediumTemp, material) ==
    interpolateSheetLambda(QDiv(QAdd(ambientTemp, mediumTemp), QInt(2)), material)

\* surfaceTempAt of lines 194-199, its free variables made parameters.
surfaceTempAt(thicknessMm, ambientTemp, mediumTemp, lambda, h) ==
    LET R_conv  == QDiv(QInt(1), h)
        R_ins   == QDiv(QDiv(thicknessMm, QInt(1000)), lambda)
        R_total == QAdd(R_ins, R_conv)
        q       == QDiv(QSub(mediumTemp, ambientTemp), R_total)
    IN  QAdd(ambientTemp, QMul(q, R_conv))

CeilDiv(a, b) == (a + b - 1) \div b

\* Math.floor in place of Math.ceil.
RoundedDown(hiTicks) == (hiTicks \div step) * step

\* Math.ceil(hi / step) * step, in ticks.
RoundedUp(hiTicks) == CeilDiv(hiTicks, step) * step

\* Number(x.toFixed(2)): x to the nearest hundredth, halves upwards.
ToFixed2(ticks) == Q((2 * ticks + TicksPerStep) \div (2 * TicksPerStep), 100)

(***************************************************************************)
(* The calls.  Every function is pure, so a behaviour is one call: its     *)
(* arguments are chosen, the function runs, and pc = "done" holds what it  *)
(* returned or threw.  The while loop of calculateMinimumSheetThickness    *)
(* takes one step per iteration (pc = "bisect").                           *)
(***************************************************************************)
VARIABLES pc, op, args, outcome, error, result, derived, lo, hi, nominal

vars == <<pc, op, args, outcome, error, result, derived, lo, hi, nominal>>

\* Ambient temperatures, medium temperatures (every 10 degrees from -10 up),
\* dew points and safety margins, in tenths of a degree.
MaxMediumStep == 3
AmbientTemps == {200, 250}
MediumTemps == {100 * k : k \in (0 - 1)..MaxMediumStep}
DewPoints == {100, 150, 197, 200, 247, 260}
SafetyMargins == {0, 3, 10}

\* Thicknesses (mm), areas (m2), conductivities (1/1000 W/(m K)), energy
\* costs and target heat fluxes (W/m2) of the direct calls.
MaxArea == 2
Thicknesses == {0 - 1, 0, 13, 25}
Areas == (0 - 1)..MaxArea
FlatLambdas == {0 - 1, 0, 36, 40}
Costs == {0, 5}
TargetFluxes == {0 - 1, 0, 5, 15, 50}

Init ==
    /\ pc = "idle"
    /\ op = "none"
    /\ args = << >>
    /\ outcome = "none"
    /\ error = "none"
    /\ result = NoValue
    /\ derived = {}
    /\ lo = 0
    /\ hi = 0
    /\ nominal = 0

\* The call of opname with arguments a ended as r.
Finish(opname, a, r) ==
    /\ pc' = "done"
    /\ op' = opname
    /\ args' = a
    /\ outcome' = IF r.threw THEN "threw" ELSE "returned"
    /\ error' = r.error
    /\ result' = r.value
    /\ derived' = r.derived
    /\ UNCHANGED <<lo, hi, nominal>>

CallInterpolateSheetLambda ==
    /\ pc = "idle"
    /\ \E temp \in LambdaTemps, material \in Materials :
          Finish("interpolateSheetLambda",
                 [temp |-> temp, material |-> material],
                 Return(interpolateSheetLambda(Deg(temp), material), {"lambda"}))

CallGetFlatU ==
    /\ pc = "idle"
    /\ \E h \in Hs, thicknessMm \in Thicknesses, lambda \in FlatLambdas :
          Finish("getFlatU",
                 [h |-> h, thicknessMm |-> thicknessMm, lambda |-> lambda],
                 getFlatU(QInt(h), QInt(thicknessMm), Q(lambda, 1000)))

CallComputeSheetHeatLoss ==
    /\ pc = "idle"
    /\ \E ambientTemp \in AmbientTemps, mediumTemp \in MediumTemps,
          thicknessMm \in Thicknesses, areaM2 \in Areas,
          material \in SomeMaterials, h \in Hs, costPerKWh \in Costs :
          Finish("computeSheetHeatLoss",
                 [ambientTemp |-> ambientTemp, mediumTemp |-> mediumTemp,
                  thicknessMm |-> thicknessMm, areaM2 |-> areaM2,
                  material |-> material, h |-> h, costPerKWh |-> costPerKWh],
                 computeSheetHeatLoss(Deg(ambientTemp), Deg(mediumTemp),
                                      QInt(thicknessMm), QInt(areaM2), material,
                                      QInt(h), QInt(costPerKWh)))

CallGetRecommendedSheetThickness ==
    /\ pc = "idle"
    /\ \E ambientTemp \in AmbientTemps, mediumTemp \in MediumTemps,
          material \in Materials, h \in Hs,
          targetHeatFluxWPerM2 \in TargetFluxes :
          Finish("getRecommendedSheetThickness",
                 [ambientTemp |-> ambientTemp, mediumTemp |-> mediumTemp,
                  material |-> material, h |-> h,
                  targetHeatFluxWPerM2 |-> targetHeatFluxWPerM2],
                 getRecommendedSheetThickness(Deg(ambientTemp), Deg(mediumTemp),
                                              material, QInt(h),
                                              QInt(targetHeatFluxWPerM2)))

CallGetNominalSheetThicknessRecommendation ==
    /\ pc = "idle"
    /\ \E minimumThickness \in 0..MaxNominalInput :
          Finish("getNominalSheetThicknessRecommendation",
                 [minimumThickness |-> minimumThickness],
                 Return(QInt(getNominalSheetThicknessRecommendation(
                            Mm100(minimumThickness))), {}))

(***************************************************************************)
(* calculateMinimumSheetThickness, step by step.                           *)
(***************************************************************************)
TargetSurfaceTemp(a) == QAdd(Deg(a.dewPoint), Deg(a.safetyMarginC))

\* surfaceTempAt of the call with arguments a, at a thickness in mm.
SurfaceTempOfMm(a, thicknessMm) ==
    surfaceTempAt(thicknessMm, Deg(a.ambientTemp), Deg(a.mediumTemp),
                  MeanLambda(Deg(a.ambientTemp), Deg(a.mediumTemp), a.material),
                  QInt(a.h))

SurfaceTempOf(a, ticks) == SurfaceTempOfMm(a, TicksToMm(ticks))

\* The validations with dewPoint > ambientTemp in place of >=.
MinimumErrorAboveOnly(a) ==
    IF QLe(QInt(a.h), QInt(0)) THEN "h"
    ELSE IF QGt(Deg(a.dewPoint), Deg(a.ambientTemp)) THEN "dewPoint"
    ELSE IF QGt(TargetSurfaceTemp(a), Deg(a.ambientTemp)) THEN "targetSurfaceTemp"
    ELSE "none"

\* Lines 170-186: the validations, in the code's order; "none" when all pass.
MinimumError(a) ==
    IF QLe(QInt(a.h), QInt(0)) THEN "h"
    ELSE IF QGe(Deg(a.dewPoint), Deg(a.ambientTemp)) THEN "dewPoint"
    ELSE IF QGt(TargetSurfaceTemp(a), Deg(a.ambientTemp)) THEN "targetSurfaceTemp"
    ELSE "none"

\* Lines 170-213: the validations, the fallback, the start of the loop.
StartMinimum(a) ==
    IF MinimumError(a) # "none"
    THEN Finish("calculateMinimumSheetThickness", a,
                Throw(MinimumError(a),
                      IF MinimumError(a) = "targetSurfaceTemp"
                      THEN {"targetSurfaceTemp"} ELSE {}))
    ELSE IF QLt(SurfaceTempOf(a, maxMm), TargetSurfaceTemp(a))
    THEN Finish("calculateMinimumSheetThickness", a,
                Return(QInt(FallbackMm),
                       {"targetSurfaceTemp", "meanTemp", "lambda", "R_conv"}))
    ELSE /\ pc' = "bisect"
         /\ op' = "calculateMinimumSheetThickness"
         /\ args' = a
         /\ lo' = minMm
         /\ hi' = maxMm
         /\ derived' = {"targetSurfaceTemp", "meanTemp", "lambda", "R_conv"}
         /\ UNCHANGED <<outcome, error, result, nominal>>

CallCalculateMinimumSheetThickness ==
    /\ pc = "idle"
    /\ \E ambientTemp \in AmbientTemps, mediumTemp \in MediumTemps,
          dewPoint \in DewPoints, material \in SomeMaterials, h \in Hs,
          safetyMarginC \in SafetyMargins :
          StartMinimum([ambientTemp |-> ambientTemp, mediumTemp |-> mediumTemp,
                        dewPoint |-> dewPoint, material |-> material, h |-> h,
                        safetyMarginC |-> safetyMarginC])

\* One iteration of while (hi - lo > step).
BisectStep ==
    /\ pc = "bisect"
    /\ hi - lo > step
    /\ LET mid  == (lo + hi) \div 2
           tMid == SurfaceTempOf(args, mid)
       IN  IF QGe(tMid, TargetSurfaceTemp(args))
           THEN hi' = mid /\ lo' = lo
           ELSE lo' = mid /\ hi' = hi
    /\ UNCHANGED <<pc, op, args, outcome, error, result, derived, nominal>>

\* The loop is left: lines 226-227.
BisectReturn ==
    /\ pc = "bisect"
    /\ ~(hi - lo > step)
    /\ pc' = "done"
    /\ outcome' = "returned"
    /\ result' = ToFixed2(RoundedUp(hi))
    /\ derived' = derived \cup {"roundedUp"}
    /\ UNCHANGED <<op, args, error, lo, hi, nominal>>

\* The rounder applied to what calculateMinimumSheetThickness returned.
NominalOfMinimum ==
    /\ pc = "done"
    /\ op = "calculateMinimumSheetThickness"
    /\ outcome = "returned"
    /\ nominal = 0
    /\ nominal' = getNominalSheetThicknessRecommendation(result)
    /\ UNCHANGED <<pc, op, args, outcome, error, result, derived, lo, hi>>

Next ==
    \/ CallInterpolateSheetLambda
    \/ CallGetFlatU
    \/ CallComputeSheetHeatLoss
    \/ CallGetRecommendedSheetThickness
    \/ CallGetNominalSheetThicknessRecommendation
    \/ CallCalculateMinimumSheetThickness
    \/ BisectStep
    \/ BisectReturn
    \/ NominalOfMinimum

Spec == Init /\ [][Next]_vars

\* The functions share no state, so each also runs on its own.
NextLambda == CallInterpolateSheetLambda
SpecLambda == Init /\ [][NextLambda]_vars

NextNominal == CallGetNominalSheetThicknessRecommendation
SpecNominal == Init /\ [][NextNominal]_vars

NextRecommended == CallGetRecommendedSheetThickness
SpecRecommended == Init /\ [][NextRecommended]_vars

NextHeatLoss == CallComputeSheetHeatLoss
SpecHeatLoss == Init /\ [][NextHeatLoss]_vars

NextMinimum ==
    \/ CallCalculateMinimumSheetThickness
    \/ BisectStep
    \/ BisectReturn
    \/ NominalOfMinimum

SpecMinimum == Init /\ [][NextMinimum]_vars

(***************************************************************************)
(* Well-formedness of the model itself.                                    *)
(***************************************************************************)
\* The midpoint of the bisection is a whole number of ticks, and the power
\* of computeSheetHeatLoss stays in the range where its bound is exact.
ModelExact ==
    /\ (pc = "bisect" /\ hi - lo > step) => (lo + hi) % 2 = 0
    /\ pc = "bisect" => minMm <= lo /\ lo < hi /\ hi <= maxMm
    /\ op = "computeSheetHeatLoss" =>
          QLe(QAbs(QSub(Deg(args.mediumTemp), Deg(args.ambientTemp))), QInt(125))

(***************************************************************************)
(* Claims about interpolateSheetLambda.                                    *)
(***************************************************************************)
InterpolateDone == pc = "done" /\ op = "interpolateSheetLambda"
KnownMaterial == args.material \in DOMAIN SHEET_MATERIALS
Anchors == DOMAIN SHEET_MATERIALS[args.material].lambda
StoredLambda(anchor) == Q(SHEET_MATERIALS[args.material].lambda[anchor], 10000)
\* args.temp is in tenths of a degree, the anchors in degrees.
AdjacentAnchors == {<<a, b>> \in Anchors \X Anchors :
                       a < b /\ \A c \in Anchors : ~(a < c /\ c < b)}

\* C3, as stated: for every known material with at least two anchors and
\* every temperature at or above its highest anchor, equality included,
\* interpolateSheetLambda returns the lowest anchor's lambda.
C3_AtOrAboveHighestGivesLowest ==
    (InterpolateDone /\ KnownMaterial /\ Cardinality(Anchors) >= 2
        /\ args.temp >= 10 * Max(Anchors))
    => QEq(result, StoredLambda(Min(Anchors)))

\* C3, amended: strictly above the highest anchor the lowest anchor's lambda
\* is returned; exactly at the highest anchor the highest anchor's own.
C3_AboveHighestGivesLowest ==
    (InterpolateDone /\ KnownMaterial /\ Cardinality(Anchors) >= 2)
    => /\ args.temp > 10 * Max(Anchors) => QEq(result, StoredLambda(Min(Anchors)))
       /\ args.temp = 10 * Max(Anchors) => QEq(result, StoredLambda(Max(Anchors)))

C3_Witness ==
    /\ InterpolateDone /\ KnownMaterial /\ Cardinality(Anchors) >= 2
    /\ args.temp > 10 * Max(Anchors)
    /\ QEq(result, StoredLambda(Min(Anchors)))
    /\ ~QEq(result, StoredLambda(Max(Anchors)))

\* C4: at a temperature equal to a stored anchor interpolateSheetLambda
\* returns that anchor's lambda unchanged, and strictly between two adjacent
\* anchors a value between their two lambdas, inclusive.
C4_AnchorExactAndBetween ==
    (InterpolateDone /\ KnownMaterial)
    => /\ \A a \in Anchors :
             args.temp = 10 * a => result = StoredLambda(a)
       /\ \A p \in AdjacentAnchors :
             (10 * p[1] < args.temp /\ args.temp < 10 * p[2])
             => LET l0 == StoredLambda(p[1])
                    l1 == StoredLambda(p[2])
                IN  /\ QLe(IF QLe(l0, l1) THEN l0 ELSE l1, result)
                    /\ QLe(result, QMax(l0, l1))

C4_Witness ==
    /\ InterpolateDone /\ KnownMaterial
    /\ \E p \in AdjacentAnchors :
          /\ 10 * p[1] < args.temp /\ args.temp < 10 * p[2]
          /\ QLt(StoredLambda(p[2]), result)
          /\ QLt(result, StoredLambda(p[1]))

(***************************************************************************)
(* Claims about getNominalSheetThicknessRecommendation.                    *)
(***************************************************************************)
NominalDone == pc = "done" /\ op = "getNominalSheetThicknessRecommendation"

\* C2, as stated: the rounder returns 19 for 11, 13 for 7 and 6 for 4.99.
C2_BreakpointsAsStated ==
    NominalDone
    => /\ args.minimumThickness = 1100 => QEq(result, QInt(19))
       /\ args.minimumThickness = 700 => QEq(result, QInt(13))
       /\ args.minimumThickness = 499 => QEq(result, QInt(6))

\* C2, amended: the rounder returns 19 for 11, 9 for 7 (7 is not above the
\* breakpoint 7) and 6 for 4.99.
C2_Breakpoints ==
    NominalDone
    => /\ args.minimumThickness = 1100 => QEq(result, QInt(19))
       /\ args.minimumThickness = 700 => QEq(result, QInt(9))
       /\ args.minimumThickness = 499 => QEq(result, QInt(6))

C2_Witness == NominalDone /\ args.minimumThickness = 700 /\ QEq(result, QInt(9))

(***************************************************************************)
(* Claims about getRecommendedSheetThickness.                              *)
(***************************************************************************)
RecommendedDone == pc = "done" /\ op = "getRecommendedSheetThickness"
Catalog == {6, 9, 10, 13, 19, 25, 32, 40, 50}

\* U(h, t, lambda) * |mediumTemp - ambientTemp| <= targetFlux for the call's
\* arguments, lambda taken at ambientTemp (h > 0).
MeetsTarget(t) ==
    LET lambda == interpolateSheetLambda(Deg(args.ambientTemp), args.material)
        U      == QDiv(QInt(1),
                       QAdd(QDiv(QInt(1), QInt(args.h)),
                            QDiv(Q(t, 1000), lambda)))
        deltaT == QAbs(QSub(Deg(args.mediumTemp), Deg(args.ambientTemp)))
    IN  QLe(QMul(U, deltaT), QInt(args.targetHeatFluxWPerM2))

\* The catalog thickness that is the call's result (0 when there is none).
ResultThickness ==
    IF outcome = "returned" /\ \E t \in Catalog : QEq(result, QInt(t))
    THEN CHOOSE t \in Catalog : QEq(result, QInt(t))
    ELSE 0

\* C5: with h > 0 (every lambda is positive) getRecommendedSheetThickness
\* returns the smallest catalog thickness that meets the target flux: the
\* result meets it and no smaller entry does; when no entry meets it, 50.
C5_SmallestCatalogEntry ==
    (RecommendedDone /\ args.h > 0)
    => /\ ResultThickness \in Catalog
       /\ \A t \in Catalog : t < ResultThickness => ~MeetsTarget(t)
       /\ MeetsTarget(ResultThickness)
             \/ (ResultThickness = 50 /\ \A t \in Catalog : ~MeetsTarget(t))

C5_Witness ==
    /\ RecommendedDone /\ args.h > 0
    /\ ResultThickness \in Catalog \ {6, 50}
    /\ MeetsTarget(ResultThickness)
    /\ ~MeetsTarget(6)

\* C6, as stated: getRecommendedSheetThickness never fails: for every input,
\* h <= 0 included, it returns a catalog thickness and raises no error.
C6_NeverFailsAsStated ==
    RecommendedDone => outcome = "returned" /\ ResultThickness \in Catalog

\* C6, amended: for every input with h > 0 it returns a catalog thickness and
\* raises no error, 50 when no entry meets the target; with h <= 0 it raises
\* getFlatU's InvalidInput error for h and returns nothing.
C6_NeverFailsForPositiveH ==
    RecommendedDone
    => /\ args.h > 0 =>
             /\ outcome = "returned"
             /\ ResultThickness \in Catalog
             /\ (\A t \in Catalog : ~MeetsTarget(t)) => ResultThickness = 50
       /\ args.h <= 0 =>
             /\ outcome = "threw"
             /\ error = "h"
             /\ ErrorKind(error) = "InvalidInput"
             /\ result = NoValue

C6_Witness ==
    /\ RecommendedDone /\ args.h > 0
    /\ \A t \in Catalog : ~MeetsTarget(t)
    /\ outcome = "returned"
    /\ ResultThickness = 50

(***************************************************************************)
(* Claims about the validations.                                           *)
(***************************************************************************)
\* C7: getFlatU, computeSheetHeatLoss and calculateMinimumSheetThickness
\* raise InvalidInput and return nothing whenever one of h, thickness, area
\* among their parameters is <= 0 (getFlatU also for lambda <= 0), before any
\* derived quantity is computed.
C7_InvalidInputFirst ==
    LET invalid ==
            \/ /\ op = "getFlatU"
               /\ args.h <= 0 \/ args.thicknessMm <= 0 \/ args.lambda <= 0
            \/ /\ op = "computeSheetHeatLoss"
               /\ args.h <= 0 \/ args.thicknessMm <= 0 \/ args.areaM2 <= 0
            \/ /\ op = "calculateMinimumSheetThickness"
               /\ args.h <= 0
    IN  invalid
        => /\ pc = "done"
           /\ outcome = "threw"
           /\ ErrorKind(error) = "InvalidInput"
           /\ result = NoValue
           /\ derived = {}
           /\ nominal = 0

C7_Witness ==
    /\ pc = "done" /\ op = "computeSheetHeatLoss"
    /\ args.areaM2 > 0 /\ args.thicknessMm > 0 /\ args.h <= 0
    /\ outcome = "threw" /\ error = "h" /\ derived = {}

\* C9: whenever computeSheetHeatLoss returns a result, the baseline Q0 it
\* divides by in decrease = (Q0 - Q) / Q0 * 100 is not zero, and so decrease
\* is a number.
C9_NoDivisionByZero ==
    (pc = "done" /\ op = "computeSheetHeatLoss" /\ outcome = "returned")
    => /\ ~QEq(BareSurfaceQ0(Deg(args.ambientTemp), Deg(args.mediumTemp),
                             QInt(args.areaM2)), QInt(0))
       /\ IsFinite(result.decrease)

(***************************************************************************)
(* Claims about calculateMinimumSheetThickness.                            *)
(***************************************************************************)
MinimumCalled == op = "calculateMinimumSheetThickness"
\* The call returned what the bisection found, not the 50 mm fallback.
BisectionResult ==
    /\ MinimumCalled /\ pc = "done" /\ outcome = "returned"
    /\ "roundedUp" \in derived

\* C1, as stated: for every accepted input whose result t comes from the
\* bisection, surfaceTempAt(t - 0.01) < target <= surfaceTempAt(t), also when
\* surfaceTempAt(0.01) already meets the target.
C1_BracketAsStated ==
    BisectionResult
    => /\ QLt(SurfaceTempOfMm(args, QSub(result, Q(1, 100))), TargetSurfaceTemp(args))
       /\ QLe(TargetSurfaceTemp(args), SurfaceTempOfMm(args, result))

\* C1, amended: the result t of the bisection meets the target,
\* target <= surfaceTempAt(t); when surfaceTempAt(0.01) is below the target,
\* surfaceTempAt(t - 0.02) < target (t is within 0.02 mm, not 0.01 mm, of the
\* least sufficient thickness); when surfaceTempAt(0.01) already meets the
\* target, t is 0.02 mm.
C1_Bracket ==
    BisectionResult
    => /\ QLe(TargetSurfaceTemp(args), SurfaceTempOfMm(args, result))
       /\ IF QLt(SurfaceTempOf(args, minMm), TargetSurfaceTemp(args))
          THEN QLt(SurfaceTempOfMm(args, QSub(result, Q(2, 100))),
                   TargetSurfaceTemp(args))
          ELSE QEq(result, Q(2, 100))

\* A bisection that had to search, and whose result is not the least
\* hundredth that meets the target.
C1_Witness ==
    /\ BisectionResult
    /\ QLt(SurfaceTempOf(args, minMm), TargetSurfaceTemp(args))
    /\ QGe(SurfaceTempOfMm(args, QSub(result, Q(1, 100))), TargetSurfaceTemp(args))
    /\ QLt(SurfaceTempOfMm(args, QSub(result, Q(2, 100))), TargetSurfaceTemp(args))

\* One of the preconditions h > 0, dewPoint < ambientTemp,
\* dewPoint + safetyMarginC <= ambientTemp is violated (tenths of a degree).
PreconditionViolated ==
    \/ args.h <= 0
    \/ args.dewPoint >= args.ambientTemp
    \/ args.dewPoint + args.safetyMarginC > args.ambientTemp

C8_RaisesOnlyThen ==
    MinimumCalled
    => /\ PreconditionViolated <=> outcome = "threw"
       /\ outcome = "threw" => pc = "done" /\ result = NoValue
       /\ (pc = "done" /\ ~PreconditionViolated)
             => outcome = "returned" /\ QGt(result, QInt(0))

\* Every step of a call that has not ended either ends it with a result or
\* halves the bracket, whose width hi - lo stays positive: the loop ends.
C8_LoopEnds ==
    pc = "bisect"
    => \/ pc' = "done" /\ outcome' = "returned"
       \/ /\ pc' = "bisect"
          /\ 0 < hi' - lo'
          /\ 2 * (hi' - lo') = hi - lo

\* C8: calculateMinimumSheetThickness raises exactly when a precondition is
\* violated, and for every input satisfying all three it returns a thickness:
\* the call never raises, and its loop ends.
C8_RaisesExactly == []C8_RaisesOnlyThen /\ [][C8_LoopEnds]_vars

C8_Witness ==
    /\ BisectionResult
    /\ ~PreconditionViolated
    /\ args.dewPoint + args.safetyMarginC = args.ambientTemp

\* C10: the nominal thickness of every value calculateMinimumSheetThickness
\* returns is a catalog size at least as thick as that value.
C10_NominalCoversMinimum ==
    (MinimumCalled /\ nominal # 0)
    => nominal \in Catalog /\ QGe(QInt(nominal), result)
====
